---- MODULE Spec2Model ----
(***************************************************************************)
(* A model of the AURIN impact-tracking dashboard: the memoized Dimensions *)
(* loader (data_loader.py), the sidebar's credential handling              *)
(* (components/sidebar.py) and the script that ties them (main.py).        *)
(*                                                                         *)
(* Strings whose content the code inspects (credentials, exception         *)
(* messages) are sequences of one-character strings, so that strip(),      *)
(* lower() and the substring test are computed and not assumed.            *)
(***************************************************************************)
EXTENDS Integers, Sequences, FiniteSets, TLC

\* ------------------------------------------------------------------ bounds
\* Script runs of one specification of the dashboard (Spec).
MaxRuns == 4
\* Direct load_data calls of the loader specification (SpecLoader).
MaxCalls == 3
\* Rows of the collaborator's affiliations / publications tables (SpecJoin).
MaxAffRows == 2
MaxPubRows == 2
\* Words of an exception message (SpecClassify).
MaxWords == 2
\* Rows of the affiliations table the views are given (SpecAffViews).
MaxViewAffRows == 2
\* Rows of the publications table the views are given (SpecPubViews).
MaxViewRows == 3

\* ------------------------------------------------------------------ values
\* Python's None where the other values are atoms, and an absent text cell.
Null == "None"
\* None where the other values are strings (sequences of characters).
NoText == <<"None">>
\* None where the other values are DataFrames.
NoTable == [none |-> TRUE]
\* pandas' NaN in a numeric cell; citation counts are never negative.
NaN == -1
\* A key that session_state does not hold yet.
Unset == <<"unset">>

\* ------------------------------------------------------------- credentials
\* Characters str.strip() removes.
Whitespace == {" ", "\t", "\n"}

EmptyKey == << >>
BlankKey == <<" ", "\t">>
KeyA == <<"k", "1">>
\* A credential with a leading blank: not blank as a whole.
KeyB == <<" ", "k", "2">>
KeyTexts == {EmptyKey, BlankKey, KeyA, KeyB}

\* str.strip(): leading and trailing whitespace removed.
RECURSIVE LStrip(_)
LStrip(s) ==
  IF s # << >> /\ Head(s) \in Whitespace THEN LStrip(Tail(s)) ELSE s

RECURSIVE RStrip(_)
RStrip(s) ==
  IF s # << >> /\ s[Len(s)] \in Whitespace
  THEN RStrip(SubSeq(s, 1, Len(s) - 1)) ELSE s

Strip(s) == RStrip(LStrip(s))

\* Python truthiness of an optional string: None and "" are falsy.
Truthy(s) == s # NoText /\ s # << >>

ValidateNoStrip(api_key) == Truthy(api_key)

\* _validate_api_key: not api_key or not api_key.strip() -> False.
ValidateApiKey(api_key) ==
  IF ~Truthy(api_key) \/ ~Truthy(Strip(api_key)) THEN FALSE ELSE TRUE

\* --------------------------------------------------------- error messages
LowerChar(c) ==
  CASE c = "A" -> "a" [] c = "B" -> "b" [] c = "C" -> "c" [] c = "D" -> "d"
    [] c = "E" -> "e" [] c = "F" -> "f" [] c = "G" -> "g" [] c = "H" -> "h"
    [] c = "I" -> "i" [] c = "J" -> "j" [] c = "K" -> "k" [] c = "L" -> "l"
    [] c = "M" -> "m" [] c = "N" -> "n" [] c = "O" -> "o" [] c = "P" -> "p"
    [] c = "Q" -> "q" [] c = "R" -> "r" [] c = "S" -> "s" [] c = "T" -> "t"
    [] c = "U" -> "u" [] c = "V" -> "v" [] c = "W" -> "w" [] c = "X" -> "x"
    [] c = "Y" -> "y" [] c = "Z" -> "z" [] OTHER -> c

\* str.lower()
Lower(s) == [i \in 1..Len(s) |-> LowerChar(s[i])]

\* Python's `k in s` on strings: k is a contiguous substring of s.
Contains(s, k) ==
  \E i \in 1..(Len(s) - Len(k) + 1) : SubSeq(s, i, i + Len(k) - 1) = k

\* The four keywords data_loader.py searches for.
KwAuthentication ==
  <<"a","u","t","h","e","n","t","i","c","a","t","i","o","n">>
KwUnauthorized == <<"u","n","a","u","t","h","o","r","i","z","e","d">>
KwConnection == <<"c","o","n","n","e","c","t","i","o","n">>
KwTimeout == <<"t","i","m","e","o","u","t">>
\* The word the specification uses for the first bucket.
KwAuthorization == <<"a","u","t","h","o","r","i","z","a","t","i","o","n">>

\* Words exception messages are made of.
WAuthentication ==
  <<"A","u","t","h","e","n","t","i","c","a","t","i","o","n">>
WUnauthorized == <<"U","n","a","u","t","h","o","r","i","z","e","d">>
WAuthorization == <<"A","u","t","h","o","r","i","z","a","t","i","o","n">>
WConnection == <<"C","O","N","N","E","C","T","I","O","N">>
WTimeout == <<"t","i","m","e","o","u","t">>
WError == <<"E","r","r","o","r">>
WBoom == <<"b","o","o","m">>
Vocabulary ==
  {WAuthentication, WUnauthorized, WAuthorization, WConnection, WTimeout,
   WError, WBoom}

\* The words of ws joined by single blanks.
RECURSIVE JoinWords(_)
JoinWords(ws) ==
  IF ws = << >> THEN << >>
  ELSE IF Len(ws) = 1 THEN ws[1]
  ELSE ws[1] \o <<" ">> \o JoinWords(Tail(ws))

\* Every message of at most MaxWords words (str(e) may be empty).
BoundedMessages ==
  {JoinWords(ws) : ws \in UNION {[1..n -> Vocabulary] : n \in 0..MaxWords}}

\* The messages the collaborator raises in Spec and SpecLoader.
LoaderMessages == {WUnauthorized, JoinWords(<<WConnection, WTimeout>>), WBoom}

\* One st.error report: the bucket, and the text the generic report embeds.
Report(bucket, detail) == [bucket |-> bucket, detail |-> detail]
PreconditionReport == Report("precondition", << >>)

ClassifyConnectionFirst(error_msg) ==
  IF Contains(Lower(error_msg), KwConnection)
     \/ Contains(Lower(error_msg), KwTimeout)
  THEN <<Report("connectivity", << >>)>>
  ELSE IF Contains(Lower(error_msg), KwAuthentication)
          \/ Contains(Lower(error_msg), KwUnauthorized)
  THEN <<Report("authentication", << >>)>>
  ELSE <<Report("unclassified", error_msg)>>

ClassifyEachBucket(error_msg) ==
  (IF Contains(Lower(error_msg), KwAuthentication)
      \/ Contains(Lower(error_msg), KwUnauthorized)
   THEN <<Report("authentication", << >>)>> ELSE << >>)
  \o (IF Contains(Lower(error_msg), KwConnection)
         \/ Contains(Lower(error_msg), KwTimeout)
      THEN <<Report("connectivity", << >>)>> ELSE << >>)

\* The except clause of _load_dimensions_data: the st.error calls it makes.
Classify(error_msg) ==
  IF Contains(Lower(error_msg), KwAuthentication)
     \/ Contains(Lower(error_msg), KwUnauthorized)
  THEN <<Report("authentication", << >>)>>
  ELSE IF Contains(Lower(error_msg), KwConnection)
          \/ Contains(Lower(error_msg), KwTimeout)
  THEN <<Report("connectivity", << >>)>>
  ELSE <<Report("unclassified", error_msg)>>

\* ------------------------------------------------------------------ tables
\* A DataFrame: its column names and its rows in order, each row a function
\* from the column names to cell values.
Table(cols, rows) == [cols |-> cols, rows |-> rows]

\* DataFrame.empty: no rows or no columns.
IsEmpty(t) == t.cols = {} \/ t.rows = << >>

\* df[[c1, c2]].copy()
Project(t, cs) ==
  Table(cs, [i \in 1..Len(t.rows) |-> [c \in cs |-> t.rows[i][c]]])

\* df.drop(columns=cs, errors='ignore')
DropColumns(t, cs) == Project(t, t.cols \ cs)

\* df[c] = df[src]
AssignColumn(t, c, src) ==
  Table(t.cols \cup {c},
        [i \in 1..Len(t.rows) |->
           [x \in t.cols \cup {c} |->
              IF x = c THEN t.rows[i][src] ELSE t.rows[i][x]]])

\* The columns that hold numbers, and the null cell of a column.
NumericCols == {"times_cited", "times_cited_from_main"}
NullCell(c) == IF c \in NumericCols THEN NaN ELSE Null

RECURSIVE Flatten(_)
Flatten(ss) == IF ss = << >> THEN << >> ELSE Head(ss) \o Flatten(Tail(ss))

\* The name a column of the right table gets in the merge result: suffixes
\* ('', sfx) rename a right column only when the left table has the name too.
RightName(left, c, sfx) == IF c \in left.cols THEN c \o sfx ELSE c

\* left.merge(right, left_on=.., right_on=.., how='left', suffixes=('', sfx)):
\* the left rows in order, one result row per matching right row (in the
\* right table's order), or one row with null right cells when none matches.
MergeLeft(left, right, left_on, right_on, sfx) ==
  LET cols == left.cols \cup {RightName(left, c, sfx) : c \in right.cols}
      Orig(c) == CHOOSE rc \in right.cols : RightName(left, rc, sfx) = c
      Matches(l) ==
        SelectSeq([j \in 1..Len(right.rows) |-> j],
                  LAMBDA j : right.rows[j][right_on] = l[left_on])
      Joined(l, j) ==
        [c \in cols |-> IF c \in left.cols THEN l[c]
                        ELSE right.rows[j][Orig(c)]]
      Unmatched(l) ==
        [c \in cols |-> IF c \in left.cols THEN l[c] ELSE NullCell(c)]
      RowsFor(l) ==
        IF Matches(l) = << >> THEN <<Unmatched(l)>>
        ELSE [k \in 1..Len(Matches(l)) |-> Joined(l, Matches(l)[k])]
  IN  Table(cols, Flatten([i \in 1..Len(left.rows) |-> RowsFor(left.rows[i])]))

JoinAppliesIgnoringEmpty(df_aurin_main, df_affiliations) ==
  /\ df_affiliations # NoTable
  /\ df_aurin_main # NoTable
  /\ ~IsEmpty(df_aurin_main)
  /\ "pub_id" \in df_affiliations.cols
  /\ "id" \in df_aurin_main.cols
  /\ "times_cited" \in df_aurin_main.cols

\* The two guards of the enrichment join (lines 87-88).
JoinApplies(df_aurin_main, df_affiliations) ==
  /\ df_affiliations # NoTable
  /\ ~IsEmpty(df_affiliations)
  /\ df_aurin_main # NoTable
  /\ ~IsEmpty(df_aurin_main)
  /\ "pub_id" \in df_affiliations.cols
  /\ "id" \in df_aurin_main.cols
  /\ "times_cited" \in df_aurin_main.cols

\* df[c].fillna(0)
FillZero(t, c) ==
  Table(t.cols,
        [i \in 1..Len(t.rows) |->
           [x \in t.cols |->
              IF x = c /\ t.rows[i][x] = NaN THEN 0 ELSE t.rows[i][x]]])

MergeCitationsFillZero(df_aurin_main, df_affiliations) ==
  LET citation_df == Project(df_aurin_main, {"id", "times_cited"})
      merged == MergeLeft(df_affiliations, citation_df,
                          "pub_id", "id", "_from_main")
      updated ==
        IF "times_cited_from_main" \in merged.cols
        THEN DropColumns(
               AssignColumn(merged, "times_cited", "times_cited_from_main"),
               {"times_cited_from_main"})
        ELSE merged
      filled == FillZero(updated, "times_cited")
  IN  IF "id" \in filled.cols THEN DropColumns(filled, {"id"}) ELSE filled

\* The merge and the clean-up after it (lines 90-106).
MergeCitations(df_aurin_main, df_affiliations) ==
  LET citation_df == Project(df_aurin_main, {"id", "times_cited"})
      merged == MergeLeft(df_affiliations, citation_df,
                          "pub_id", "id", "_from_main")
      updated ==
        IF "times_cited_from_main" \in merged.cols
        THEN DropColumns(
               AssignColumn(merged, "times_cited", "times_cited_from_main"),
               {"times_cited_from_main"})
        ELSE merged
  IN  IF "id" \in updated.cols THEN DropColumns(updated, {"id"}) ELSE updated

\* The affiliations table _load_dimensions_data returns.
EnrichmentJoin(df_aurin_main, df_affiliations) ==
  IF JoinApplies(df_aurin_main, df_affiliations)
  THEN MergeCitations(df_aurin_main, df_affiliations)
  ELSE df_affiliations

\* ------------------------------------------------- the external collaborator
\* DimensionsDataLoader.__init__'s default endpoint and query, and one other
\* of each for loaders constructed with arguments.
DefaultEndpoint == "https://app.dimensions.ai"
OtherEndpoint == "https://other.endpoint"
DefaultQuery == "search publications for AURIN return publications"
OtherQuery == "search publications for other return publications"
Endpoints == {DefaultEndpoint, OtherEndpoint}
Queries == {DefaultQuery, OtherQuery}
\* The (api_key, endpoint, query) triples the loader is called with: each
\* credential with the defaults, and one credential with each other component.
Triples ==
  {<<k, DefaultEndpoint, DefaultQuery>> : k \in KeyTexts}
  \cup {<<KeyA, OtherEndpoint, DefaultQuery>>, <<KeyA, DefaultEndpoint, OtherQuery>>}
NoTriple == <<NoText, Null, Null>>

\* The five tables of one loader result.
FiveTuple(m, au, af, fu, inv) ==
  [main |-> m, authors |-> au, affiliations |-> af,
   funders |-> fu, investigators |-> inv]
AllNone == FiveTuple(NoTable, NoTable, NoTable, NoTable, NoTable)

\* Result objects the collaborator answers a query with in Spec and
\* SpecLoader, given by the five tables their as_dataframe* methods return.
PubsScenario ==
  Table({"id", "title", "times_cited", "date", "journal.title"},
        <<[c \in {"id", "title", "times_cited", "date", "journal.title"} |->
             CASE c = "id" -> "P1" [] c = "title" -> "T1"
               [] c = "times_cited" -> 10 [] c = "date" -> <<"1", "0">>
               [] OTHER -> "J"],
          [c \in {"id", "title", "times_cited", "date", "journal.title"} |->
             CASE c = "id" -> "P2" [] c = "title" -> "T2"
               [] c = "times_cited" -> 3 [] c = "date" -> <<"3", "0">>
               [] OTHER -> "J"]>>)
AffScenario ==
  Table({"pub_id", "aff_name", "aff_country", "researcher_id"},
        <<[pub_id |-> "P1", aff_name |-> <<"A", "b">>, aff_country |-> "Australia",
           researcher_id |-> "r1"],
          [pub_id |-> "P9", aff_name |-> <<"c">>, aff_country |-> "New Zealand",
           researcher_id |-> "r2"]>>)
AuthorsScenario ==
  Table({"pub_id", "last_name"}, <<[pub_id |-> "P1", last_name |-> "L"]>>)
ResultScenario ==
  FiveTuple(PubsScenario, AuthorsScenario, AffScenario, NoTable, NoTable)
ResultNoAffiliations ==
  FiveTuple(PubsScenario, AuthorsScenario, NoTable, NoTable, NoTable)
\* A query that matches nothing: every table is an empty DataFrame.
EmptyTable == Table({}, << >>)
ResultEmpty == FiveTuple(EmptyTable, EmptyTable, EmptyTable, EmptyTable, EmptyTable)
LoaderResults == {ResultScenario, ResultNoAffiliations, ResultEmpty}
NoResult == [none |-> TRUE]

\* What a failing DataFrame.merge raises.
MergeMessages == {<<"m","e","r","g","e">>}

\* ------------------------------------------------------------------- views
\* What one view put on the page: a placeholder (its table is None or empty),
\* a "nothing found" note, its table or figures, or the exception it raised.
\* `selected` holds the source rows the view selected, `rows` what it displays.
Placeholder(v) ==
  [view |-> v, kind |-> "placeholder", selected |-> << >>, rows |-> << >>]
NoneFound(v) ==
  [view |-> v, kind |-> "none_found", selected |-> << >>, rows |-> << >>]
Raised(v, selected, e) ==
  [view |-> v, kind |-> "raised", selected |-> selected,
   rows |-> <<[error |-> e]>>]
Shown(v, selected, rows) ==
  [view |-> v, kind |-> "shown", selected |-> selected, rows |-> rows]

\* BaseComponent.validate_data
ValidateDataNoneOnly(data) == data # NoTable
ValidateData(data) == data # NoTable /\ ~IsEmpty(data)

\* A view's result together with the frame self.data refers to afterwards.
Outcome(out, data) == [out |-> out, data |-> data]

\* The permutations of 1..n.
Perms(n) ==
  {p \in [1..n -> 1..n] : \A i, j \in 1..n : i # j => p[i] # p[j]}

\* Descending order of sort keys with nulls last (na_position='last'): key a
\* may stand before key b.
MayPrecede(a, b, null) ==
  IF a = null THEN b = null ELSE (b = null \/ a >= b)

\* The row orders a descending sort with the default kind ('quicksort') may
\* produce: the keys are non-increasing with nulls last, and rows with equal
\* keys come in whatever order the sort leaves them (quicksort is not stable).
SortedOrders(keys, null) ==
  {p \in Perms(Len(keys)) :
     \A i, j \in 1..Len(keys) : i < j => MayPrecede(keys[p[i]], keys[p[j]], null)}

\* The order a stable descending sort (kind='mergesort') produces: rows with
\* equal keys keep their original order.
StableDescending(keys, null) ==
  CHOOSE p \in SortedOrders(keys, null) :
    \A i, j \in 1..Len(keys) :
      (i < j /\ keys[p[i]] = keys[p[j]]) => p[i] < p[j]

\* DataFrame.head(n), n >= 0
FirstN(s, n) == SubSeq(s, 1, IF n < Len(s) THEN n ELSE Len(s))

\* The rows of t picked by a sequence of row numbers.
Take(t, order) == [k \in 1..Len(order) |-> t.rows[order[k]]]

\* The values of column c, row by row.
Column(t, c) == [i \in 1..Len(t.rows) |-> t.rows[i][c]]

\* ------------------------------------------------------------------- dates
\* A date cell is text.  The texts of the model are two-digit day numbers of
\* a small calendar ("20" is the midnight that starts day 20); anything else
\* is not a date.  A parsed cell (datetime64) is "@" followed by the digits,
\* or NaT.
Digits == {"0", "1", "2", "3", "4", "5", "6", "7", "8", "9"}
DigitVal(c) ==
  CASE c = "0" -> 0 [] c = "1" -> 1 [] c = "2" -> 2 [] c = "3" -> 3
    [] c = "4" -> 4 [] c = "5" -> 5 [] c = "6" -> 6 [] c = "7" -> 7
    [] c = "8" -> 8 [] c = "9" -> 9
NaTCell == <<"N", "a", "T">>
\* NaT as a sort key.
NaT == -1
\* Instants are counted in half days, so that "now" can fall inside a day.
TicksPerDay == 2

IsParsed(cell) == cell = NaTCell \/ (cell # << >> /\ Head(cell) = "@")
IsDateText(cell) ==
  Len(cell) = 2 /\ cell[1] \in Digits /\ cell[2] \in Digits

\* pd.to_datetime on one cell that parses: None and NaT give NaT, a datetime
\* stays what it is.
ToDatetimeCell(cell) ==
  IF IsParsed(cell) THEN cell
  ELSE IF IsDateText(cell) THEN <<"@">> \o cell
  ELSE NaTCell

\* pd.to_datetime(column) raises on a text that is not a date (errors='raise').
ToDatetimeRaises(cells) ==
  \E i \in 1..Len(cells) :
    cells[i] # NoText /\ ~IsParsed(cells[i]) /\ ~IsDateText(cells[i])

\* The instant of a parsed cell, in ticks; NaT for NaT.
Timestamp(cell) ==
  IF cell = NaTCell THEN NaT
  ELSE (10 * DigitVal(cell[2]) + DigitVal(cell[3])) * TicksPerDay

\* .dt.strftime('%Y-%m-%d') of a parsed cell: the date's text, None for NaT.
Strftime(cell) == IF cell = NaTCell THEN NoText ELSE Tail(cell)

\* df['date'] = pd.to_datetime(df['date'], errors='coerce')
CoerceDates(t) ==
  Table(t.cols,
        [i \in 1..Len(t.rows) |->
           [c \in t.cols |->
              IF c = "date" THEN ToDatetimeCell(t.rows[i][c]) ELSE t.rows[i][c]]])

\* data_copy = self.data.copy(): the view's writes go to a new frame.  The
\* frames a view holds are named; this is the name the writes go to.
DataCopyAliased == "self"

DataCopy == "copy"

\* The frames after `data_copy = self.data.copy()` and the date conversion
\* (recent_papers.py lines 33-37, papers_last_6_months.py lines 35-39).
ParsedCopy(data) ==
  LET copied == [self |-> data, copy |-> data]
  IN  IF "date" \in data.cols
      THEN [copied EXCEPT ![DataCopy] = CoerceDates(copied[DataCopy])]
      ELSE copied

\* ------------------------------------------------- the publication views
\* Series.nlargest(n, keep='first') on column c, as row numbers.  With n below
\* the number of rows the n largest are picked and ordered by a stable sort;
\* otherwise pandas falls back to sort_values(ascending=False).head(n), whose
\* default sort does not say where rows with equal keys go.
NLargest(t, n, c) ==
  LET keys == Column(t, c)
  IN  IF n <= 0 THEN {<< >>}
      ELSE IF n >= Len(keys) THEN {FirstN(p, n) : p \in SortedOrders(keys, NaN)}
      ELSE {FirstN(StableDescending(keys, NaN), n)}

\* The columns the three publication tables display.
DisplayCols == {"title", "times_cited", "journal.title", "date"}

\* One displayed row: the four display columns, the date formatted.
DisplayRow(r) ==
  [title |-> r["title"], citations |-> r["times_cited"],
   journal |-> r["journal.title"], date |-> Strftime(ToDatetimeCell(r["date"]))]
DisplayRows(rows) == [k \in 1..Len(rows) |-> DisplayRow(rows[k])]

\* TopCitedArticlesComponent.render
TopCitedArticles(data, top_n) ==
  IF ~ValidateData(data)
  THEN {Outcome(Placeholder("top_cited"), data)}
  ELSE IF "times_cited" \notin data.cols
  THEN {Outcome(Raised("top_cited", << >>, "KeyError"), data)}
  ELSE {LET top_cited_articles == Take(data, order)
        IN  IF top_cited_articles = << >>
            THEN Outcome(NoneFound("top_cited"), data)
            ELSE IF ~(DisplayCols \subseteq data.cols)
            THEN Outcome(Raised("top_cited", top_cited_articles, "KeyError"), data)
            ELSE IF ToDatetimeRaises([k \in 1..Len(top_cited_articles) |->
                                        top_cited_articles[k]["date"]])
            THEN Outcome(Raised("top_cited", top_cited_articles, "ValueError"),
                         data)
            ELSE Outcome(Shown("top_cited", top_cited_articles,
                               DisplayRows(top_cited_articles)), data)
        : order \in NLargest(data, top_n, "times_cited")}

RecentOrdersNaFirst(data_copy) ==
  LET keys == [i \in 1..Len(data_copy.rows) |->
                 IF Timestamp(data_copy.rows[i]["date"]) = NaT THEN 1000
                 ELSE Timestamp(data_copy.rows[i]["date"])]
  IN  SortedOrders(keys, NaT)

\* data_copy.sort_values(by='date', ascending=False), as row numbers.
RecentOrders(data_copy) ==
  SortedOrders([i \in 1..Len(data_copy.rows) |->
                  Timestamp(data_copy.rows[i]["date"])], NaT)

\* RecentPapersComponent.render
RecentPapers(data, top_n) ==
  IF ~ValidateData(data)
  THEN {Outcome(Placeholder("recent"), data)}
  ELSE LET frames == ParsedCopy(data)
           data_copy == frames[DataCopy]
       IN  IF "date" \notin data_copy.cols
           THEN {Outcome(Raised("recent", << >>, "KeyError"), frames.self)}
           ELSE {LET top_recent_papers == FirstN(Take(data_copy, order), top_n)
                 IN  IF top_recent_papers = << >>
                     THEN Outcome(NoneFound("recent"), frames.self)
                     ELSE IF ~(DisplayCols \subseteq data_copy.cols)
                     THEN Outcome(Raised("recent", top_recent_papers, "KeyError"),
                                  frames.self)
                     ELSE Outcome(Shown("recent", top_recent_papers,
                                        DisplayRows(top_recent_papers)),
                                  frames.self)
                 : order \in RecentOrders(data_copy)}

\* timedelta(days=180)
HalfYearDays == 180

InWindowExclusive(cell, now) ==
  /\ Timestamp(cell) # NaT
  /\ Timestamp(cell) > now - HalfYearDays * TicksPerDay

\* data_copy['date'] >= six_months_ago, on one cell: NaT compares False.
InWindow(cell, now) ==
  /\ Timestamp(cell) # NaT
  /\ Timestamp(cell) >= now - HalfYearDays * TicksPerDay

\* data_copy[data_copy['date'] >= six_months_ago]: the rows within the
\* window, in order.
FilterRows(t, now) ==
  Table(t.cols, SelectSeq(t.rows, LAMBDA r : InWindow(r["date"], now)))

\* PapersLast6MonthsComponent.render
PapersLast6Months(data, now) ==
  IF ~ValidateData(data)
  THEN {Outcome(Placeholder("last_6_months"), data)}
  ELSE LET frames == ParsedCopy(data)
           data_copy == frames[DataCopy]
       IN  IF "date" \notin data_copy.cols
           THEN {Outcome(Raised("last_6_months", << >>, "KeyError"), frames.self)}
           ELSE LET filtered ==
                      FilterRows(data_copy, now)
                IN  {LET recent_6_months_papers == Take(filtered, order)
                     IN  IF recent_6_months_papers = << >>
                         THEN Outcome(NoneFound("last_6_months"), frames.self)
                         ELSE IF ~(DisplayCols \subseteq data_copy.cols)
                         THEN Outcome(Raised("last_6_months",
                                             recent_6_months_papers, "KeyError"),
                                      frames.self)
                         ELSE Outcome(Shown("last_6_months", recent_6_months_papers,
                                            DisplayRows(recent_6_months_papers)),
                                      frames.self)
                     : order \in RecentOrders(filtered)}

\* ------------------------------------------------- the affiliation views
\* Series.sum(): nulls are skipped.
RECURSIVE SumCells(_)
SumCells(cells) ==
  IF cells = << >> THEN 0
  ELSE (IF Head(cells) = NaN THEN 0 ELSE Head(cells)) + SumCells(Tail(cells))

\* Series.unique(): the distinct cells, a null cell being one of them.
Unique(cells) == {cells[i] : i \in 1..Len(cells)}

\* Series.nunique(): the distinct cells that are not null.
NUnique(cells) == Cardinality(Unique(cells) \ {Null})

\* The members of a finite set in some order.
SetToSeq(S) ==
  CHOOSE s \in [1..Cardinality(S) -> S] :
    \A i, j \in 1..Cardinality(S) : i # j => s[i] # s[j]

\* KeyMetricsComponent.render
KeyMetrics(main_data, affiliations_data) ==
  IF ~ValidateData(main_data) THEN Placeholder("key_metrics")
  ELSE IF "times_cited" \notin main_data.cols
  THEN Raised("key_metrics", << >>, "KeyError")
  ELSE IF affiliations_data # NoTable /\ ~IsEmpty(affiliations_data)
          /\ ~({"aff_name", "aff_country"} \subseteq affiliations_data.cols)
  THEN Raised("key_metrics", << >>, "KeyError")
  ELSE LET counted == affiliations_data # NoTable /\ ~IsEmpty(affiliations_data)
       IN  Shown("key_metrics", << >>,
                 <<[publications |-> Len(main_data.rows),
                    citations |-> SumCells(Column(main_data, "times_cited")),
                    organisations |->
                      IF counted
                      THEN Cardinality(Unique(Column(affiliations_data, "aff_name")))
                      ELSE 0,
                    countries |->
                      IF counted
                      THEN Cardinality(Unique(Column(affiliations_data,
                                                     "aff_country")))
                      ELSE 0]>>)

\* groupby(keys): the rows whose key cells are all present (dropna=True),
\* and the distinct key tuples among them.
GroupRows(t, keys, g) ==
  SelectSeq(t.rows, LAMBDA r : \A k \in DOMAIN keys : r[keys[k]] = g[k])
GroupKeys(t, keys) ==
  {[k \in DOMAIN keys |-> t.rows[i][keys[k]]] :
     i \in {j \in 1..Len(t.rows) :
              \A k \in DOMAIN keys : t.rows[j][keys[k]] # Null}}

\* GroupBy.first(): the first cell of the group that is not null.
FirstCell(cells) ==
  LET present == SelectSeq(cells, LAMBDA x : x # NaN)
  IN  IF present = << >> THEN NaN ELSE Head(present)

OrgCitationsPerRow(t, g) ==
  SumCells([i \in 1..Len(GroupRows(t, <<"aff_name", "aff_country">>, g)) |->
              GroupRows(t, <<"aff_name", "aff_country">>, g)[i]["times_cited"]])

\* Lines 47-51: times_cited taken once per (organisation, country,
\* publication) group and summed per organisation.
OrgCitations(t, g) ==
  LET pubs == GroupKeys(Table(t.cols, GroupRows(t, <<"aff_name", "aff_country">>, g)),
                        <<"pub_id">>)
      once == [k \in 1..Cardinality(pubs) |->
                 FirstCell([i \in 1..Len(GroupRows(t, <<"aff_name", "aff_country",
                                                        "pub_id">>,
                                                   g \o SetToSeq(pubs)[k])) |->
                              GroupRows(t, <<"aff_name", "aff_country", "pub_id">>,
                                        g \o SetToSeq(pubs)[k])[i]["times_cited"]])]
  IN  SumCells(once)

\* Lines 37-53: one row per (aff_name, aff_country) group, before the sort.
OrgMetricsRow(t, g) ==
  [aff_name |-> g[1], aff_country |-> g[2],
   researcher_count |->
     NUnique([i \in 1..Len(GroupRows(t, <<"aff_name", "aff_country">>, g)) |->
                GroupRows(t, <<"aff_name", "aff_country">>, g)[i]["researcher_id"]]),
   times_cited |->
     IF "times_cited" \in t.cols THEN OrgCitations(t, g) ELSE 0]

\* Lines 37-56: the rollup, in each order sort_values('researcher_count',
\* ascending=False) may leave it in.
OrgRollups(t) ==
  LET groups == SetToSeq(GroupKeys(t, <<"aff_name", "aff_country">>))
      unsorted == [k \in 1..Len(groups) |-> OrgMetricsRow(t, groups[k])]
  IN  {[k \in 1..Len(unsorted) |-> unsorted[order[k]]] :
         order \in SortedOrders([k \in 1..Len(unsorted) |->
                                   unsorted[k].researcher_count], NaN)}

\* The pattern Series.str.contains compiles (regex=True by default): an
\* opening parenthesis that is never closed is not a regular expression
\* (re.error).
RegexCompiles(pat) == \A i \in 1..Len(pat) : pat[i] # "("

\* One pattern character against one character of the text, case=False: "."
\* stands for any character, a letter for itself in either case.
CharMatches(p, c) == p = "." \/ LowerChar(p) = LowerChar(c)

\* re.search: the pattern matches somewhere in the text.
RegexSearch(pat, text) ==
  \E k \in 0..(Len(text) - Len(pat)) :
    \A i \in 1..Len(pat) : CharMatches(pat[i], text[k + i])

\* ord() of the characters organisation names are made of.
Ord(c) == CASE c = "A" -> 65 [] c = "b" -> 98 [] c = "c" -> 99

\* Python's str order: a <= b, character by character.
RECURSIVE TextLeq(_, _)
TextLeq(a, b) ==
  IF a = << >> THEN TRUE
  ELSE IF b = << >> THEN FALSE
  ELSE IF Head(a) # Head(b) THEN Ord(Head(a)) < Ord(Head(b))
  ELSE TextLeq(Tail(a), Tail(b))

\* The place of a country text in Python's str order.
CountryRank(c) ==
  CASE c = "" -> 0 [] c = "Australia" -> 1 [] c = "New Zealand" -> 2

\* The row orders sort_values (ascending, default kind) may produce on
\* numbers and on texts.
AscendingOrders(keys) ==
  {p \in Perms(Len(keys)) :
     \A i, j \in 1..Len(keys) : i < j => keys[p[i]] <= keys[p[j]]}
AscendingTextOrders(keys) ==
  {p \in Perms(Len(keys)) :
     \A i, j \in 1..Len(keys) : i < j => TextLeq(keys[p[i]], keys[p[j]])}

\* The options of the "Sort by:" box.
SortOptions == {"Publications", "Citations", "Name", "Country"}

\* Lines 83-91: the orders the chosen sort leaves the filtered rollup in; the
\* first branch tests for "Researchers", which the box does not offer, so
\* "Publications" sorts nothing.
ExplorerOrders(filtered_orgs, sort_by) ==
  LET key(c) == [k \in 1..Len(filtered_orgs) |-> filtered_orgs[k][c]]
  IN  CASE sort_by = "Researchers" -> SortedOrders(key("researcher_count"), NaN)
        [] sort_by = "Citations" -> SortedOrders(key("times_cited"), NaN)
        [] sort_by = "Name" -> AscendingTextOrders(key("aff_name"))
        [] sort_by = "Country" ->
             AscendingOrders([k \in 1..Len(filtered_orgs) |->
                                CountryRank(filtered_orgs[k].aff_country)])
        [] OTHER -> {[k \in 1..Len(filtered_orgs) |-> k]}

\* Lines 68-183: the organisation explorer on the rollup, for a search term
\* and a sort option.
OrgExplorer(org_metrics, search_term, sort_by) ==
  IF Truthy(search_term) /\ ~RegexCompiles(search_term)
  THEN {Raised("organisations", org_metrics, "re.error")}
  ELSE LET filtered_orgs ==
             IF Truthy(search_term)
             THEN SelectSeq(org_metrics,
                            LAMBDA r : RegexSearch(search_term, r.aff_name))
             ELSE org_metrics
       IN  IF filtered_orgs = << >>
           THEN {[NoneFound("organisations") EXCEPT !.selected = org_metrics]}
           ELSE {Shown("organisations", org_metrics,
                       [k \in 1..Len(order) |-> filtered_orgs[order[k]]]) :
                   order \in ExplorerOrders(filtered_orgs, sort_by)}

\* AffiliatedOrganisationsComponent.render with the search box and the sort
\* box as given.
OrganisationsView(affiliations_data, search_term, sort_by) ==
  IF affiliations_data = NoTable \/ IsEmpty(affiliations_data)
  THEN {Placeholder("organisations")}
  ELSE IF ~({"aff_name", "aff_country", "researcher_id"}
              \subseteq affiliations_data.cols)
          \/ ("times_cited" \in affiliations_data.cols
              /\ "pub_id" \notin affiliations_data.cols)
  THEN {Raised("organisations", << >>, "KeyError")}
  ELSE UNION {IF org_metrics = << >>
              THEN {Raised("organisations", org_metrics, "IndexError")}
              ELSE OrgExplorer(org_metrics, search_term, sort_by)
              : org_metrics \in OrgRollups(affiliations_data)}

\* The view as a render pass first shows it: the search box empty and the
\* sort box at its first option.
AffiliatedOrganisations(affiliations_data) ==
  OrganisationsView(affiliations_data, << >>, "Publications")

\* get_country_code: the ISO-3 code pycountry finds for a name, None if none.
GetCountryCode(country_name) ==
  CASE country_name = "Australia" -> "AUS"
    [] country_name = "New Zealand" -> "NZL"
    [] OTHER -> Null

\* Series.value_counts() of one value: the rows that hold it.
ValueCount(cells, v) == Cardinality({i \in 1..Len(cells) : cells[i] = v})

\* AffiliatedCountriesComponent.render; pycountry tells whether the pycountry
\* package could be imported.
AffiliatedCountries(data, pycountry) ==
  IF ~ValidateData(data) THEN Placeholder("countries")
  ELSE IF "aff_country" \notin data.cols
  THEN Raised("countries", << >>, "KeyError")
  ELSE LET affiliated_countries ==
             Unique(Column(data, "aff_country")) \ {Null, ""}
           country_counts ==
             [c \in affiliated_countries |->
                ValueCount(Column(data, "aff_country"), c)]
           with_iso == {c \in affiliated_countries : GetCountryCode(c) # Null}
           mapped == IF pycountry THEN with_iso ELSE affiliated_countries
       IN  IF affiliated_countries = {} THEN NoneFound("countries")
           ELSE Shown("countries", << >>,
                      <<[listed |-> affiliated_countries,
                         chart |-> IF mapped = {} THEN "pie" ELSE "map",
                         count |-> [c \in (IF mapped = {}
                                           THEN affiliated_countries ELSE mapped)
                                      |-> country_counts[c]]]>>)

\* ----------------------------------------------------- one pass of views
\* top_n's default (main.py passes none).
DefaultTopN == 5

\* The views in the order main.py renders them.
ViewOrder ==
  <<"key_metrics", "top_cited", "organisations", "countries", "recent",
    "last_6_months">>

\* View number i rendered on the tables d = [main, aff] at instant now: its
\* possible outcomes, with the tables afterwards.
ViewOutcomes(i, d, now) ==
  CASE ViewOrder[i] = "key_metrics" -> {Outcome(KeyMetrics(d.main, d.aff), d)}
    [] ViewOrder[i] = "top_cited" ->
         {Outcome(o.out, [d EXCEPT !.main = o.data]) :
            o \in TopCitedArticles(d.main, DefaultTopN)}
    [] ViewOrder[i] = "organisations" ->
         {Outcome(out, d) : out \in AffiliatedOrganisations(d.aff)}
    [] ViewOrder[i] = "countries" ->
         {Outcome(AffiliatedCountries(d.aff, py), d) : py \in BOOLEAN}
    [] ViewOrder[i] = "recent" ->
         {Outcome(o.out, [d EXCEPT !.main = o.data]) :
            o \in RecentPapers(d.main, DefaultTopN)}
    [] ViewOrder[i] = "last_6_months" ->
         {Outcome(o.out, [d EXCEPT !.main = o.data]) :
            o \in PapersLast6Months(d.main, now)}

\* main.py lines 52-74 from view i on: the views one after the other; a view
\* that raises ends the script run.
RECURSIVE RenderFrom(_, _, _)
RenderFrom(i, d, now) ==
  IF i > Len(ViewOrder) THEN {[page |-> << >>, data |-> d]}
  ELSE UNION
         {IF o.out.kind = "raised"
          THEN {[page |-> <<o.out>>, data |-> o.data]}
          ELSE {[page |-> <<o.out>> \o rest.page, data |-> rest.data] :
                  rest \in RenderFrom(i + 1, o.data, now)}
          : o \in ViewOutcomes(i, d, now)}

\* ------------------------------------------------------------------- state
VARIABLES
  session_state, \* st.session_state: api_key, api_key_input, from_date, to_date
  sidebar_msgs,  \* the reports the sidebar made in the latest script run
  shown,         \* what main.py rendered below the header in the latest run
  memo,          \* st.cache_data's store for _load_dimensions_data
  conn,          \* dimcli's process-wide connection (set by login)
  pc,            \* where the running script or loader call stands
  caller,        \* who receives the loader's result: "main" or "direct"
  cur,           \* the running loader call's (api_key, endpoint, query)
  dsl,           \* the connection the call's Dsl object is bound to
  res,           \* res_aurin
  df,            \* df_aurin_main .. df_investigators
  exc,           \* the exception the call raised, NoText if none
  msgs,          \* the st.error reports of the running loader body
  retval,        \* the value the loader body returns
  ret,           \* what the latest loader call gave its caller
  nruns,         \* script runs (Spec) or direct calls (SpecLoader) so far
  ev,            \* history: the inputs of the latest script run or render
  retry,         \* history: a credential was submitted after a failed load
  call,          \* history: the running (or latest) loader call
  ncalls,        \* history: loader calls per triple
  logins,        \* history: dimcli.login calls per triple
  queries,       \* history: query_iterative calls per triple
  firstRet,      \* history: the first value returned per triple
  data,          \* the tables the view components hold: main and aff
  page,          \* what the views of the latest render pass put on the page
  clock          \* datetime.now(), in ticks

appVars == <<session_state, sidebar_msgs, shown, ev, retry, data, page, clock>>
bodyVars == <<conn, dsl, res, df, exc, msgs, retval>>
histVars == <<ncalls, logins, queries, firstRet>>
vars == <<session_state, sidebar_msgs, shown, memo, conn, pc, caller, cur,
          dsl, res, df, exc, msgs, retval, ret, nruns, ev, retry, call,
          ncalls, logins, queries, firstRet, data, page, clock>>

NoEntry == [none |-> TRUE]
Entry(value, reports, src) == [value |-> value, msgs |-> reports, src |-> src]
FreshCall ==
  [hit |-> FALSE, logins |-> 0, queries |-> 0, loginOk |-> FALSE,
   raisedAt |-> "none"]
NoDate == 0
UnsetDate == -1
\* No view component has been built yet.
NoData == [main |-> NoTable, aff |-> NoTable]
\* The day the dashboard is looked at.
ClockDay == 200
NoConn == [none |-> TRUE]

InitLoader ==
  /\ memo = [t \in Triples |-> NoEntry]
  /\ conn = NoConn
  /\ pc = "idle"
  /\ caller = "direct"
  /\ cur = NoTriple
  /\ dsl = NoConn
  /\ res = NoResult
  /\ df = AllNone
  /\ exc = NoText
  /\ msgs = << >>
  /\ retval = AllNone
  /\ ret = Entry(AllNone, << >>, NoTriple)
  /\ nruns = 0
  /\ call = FreshCall
  /\ ncalls = [t \in Triples |-> 0]
  /\ logins = [t \in Triples |-> 0]
  /\ queries = [t \in Triples |-> 0]
  /\ firstRet = [t \in Triples |-> NoEntry]

InitApp ==
  /\ session_state = [api_key |-> Unset, api_key_input |-> Unset,
                      from_date |-> UnsetDate, to_date |-> UnsetDate]
  /\ sidebar_msgs = {}
  /\ shown = "nothing"
  /\ ev = [text |-> << >>, button |-> "none"]
  /\ retry = FALSE
  /\ data = NoData
  /\ page = << >>
  /\ clock = ClockDay * TicksPerDay

Init == InitApp /\ InitLoader

\* ------------------------------------------------------------- the loader
CacheKeyWithoutEndpoint(api_key, endpoint, query) ==
  <<api_key, DefaultEndpoint, query>>

\* st.cache_data keys an entry by the function's arguments.
CacheKey(api_key, endpoint, query) == <<api_key, endpoint, query>>

CurKey == CacheKey(cur[1], cur[2], cur[3])

\* Where control goes when the loader call returns.
AfterReturn == IF caller = "main" THEN "render" ELSE "idle"

\* The call's result is handed to the caller; the body's locals are gone.
Return(entry) ==
  /\ ret' = entry
  /\ dsl' = NoConn
  /\ res' = NoResult
  /\ df' = AllNone
  /\ exc' = NoText
  /\ msgs' = << >>
  /\ retval' = AllNone
  /\ firstRet' = IF firstRet[cur] = NoEntry
                 THEN [firstRet EXCEPT ![cur] = entry] ELSE firstRet
  /\ pc' = AfterReturn

\* DimensionsDataLoader.load_data with a loader built for (endpoint, query).
DirectCall ==
  /\ pc = "idle"
  /\ nruns < MaxCalls
  /\ \E t \in Triples : cur' = t
  /\ nruns' = nruns + 1
  /\ caller' = "direct"
  /\ pc' = "call"
  /\ call' = FreshCall
  /\ UNCHANGED <<appVars, memo, bodyVars, ret, histVars>>

\* st.cache_data finds the arguments' entry: the value is returned and the
\* recorded st.error reports are replayed; the body does not run.
CacheHit ==
  /\ pc = "call"
  /\ memo[CurKey] # NoEntry
  /\ ncalls' = [ncalls EXCEPT ![cur] = @ + 1]
  /\ call' = [call EXCEPT !.hit = TRUE]
  /\ Return(memo[CurKey])
  /\ UNCHANGED <<appVars, memo, conn, caller, cur, nruns, logins, queries>>

\* No entry: the body runs.
CacheMiss ==
  /\ pc = "call"
  /\ memo[CurKey] = NoEntry
  /\ ncalls' = [ncalls EXCEPT ![cur] = @ + 1]
  /\ msgs' = << >>
  /\ pc' = "validate"
  /\ UNCHANGED <<appVars, memo, conn, dsl, res, df, exc, retval, ret, caller,
                 cur, nruns, call, logins, queries, firstRet>>

\* Lines 71-73.
Validate ==
  /\ pc = "validate"
  /\ IF ~ValidateApiKey(cur[1])
     THEN /\ msgs' = Append(msgs, PreconditionReport)
          /\ retval' = AllNone
          /\ pc' = "store"
     ELSE /\ pc' = "login"
          /\ UNCHANGED <<msgs, retval>>
  /\ UNCHANGED <<appVars, memo, conn, dsl, res, df, exc, ret, caller, cur,
                 nruns, call, histVars>>

\* An exception leaves the try block for the except clause.
Raise(m) ==
  /\ exc' = m
  /\ pc' = "except"

LoginRetrying ==
  /\ pc = "login"
  /\ logins' = [logins EXCEPT ![cur] = @ + 1]
  /\ \/ /\ conn' = [key |-> cur[1], endpoint |-> cur[2]]
        /\ call' = [call EXCEPT !.logins = @ + 1, !.loginOk = TRUE]
        /\ pc' = "dsl"
        /\ UNCHANGED exc
     \/ /\ \E m \in LoaderMessages :
             IF call.logins = 0
             THEN exc' = exc /\ pc' = "login"
             ELSE Raise(m)
        /\ call' = [call EXCEPT !.logins = @ + 1, !.raisedAt = "login"]
        /\ UNCHANGED conn
  /\ UNCHANGED <<appVars, memo, dsl, res, df, msgs, retval, ret, caller, cur,
                 nruns, ncalls, queries, firstRet>>

\* Line 75: dimcli.login(key=api_key, endpoint=endpoint) logs in or raises.
Login ==
  /\ pc = "login"
  /\ logins' = [logins EXCEPT ![cur] = @ + 1]
  /\ \/ /\ conn' = [key |-> cur[1], endpoint |-> cur[2]]
        /\ call' = [call EXCEPT !.logins = @ + 1, !.loginOk = TRUE]
        /\ pc' = "dsl"
        /\ UNCHANGED exc
     \/ /\ \E m \in LoaderMessages : Raise(m)
        /\ call' = [call EXCEPT !.logins = @ + 1, !.raisedAt = "login"]
        /\ UNCHANGED conn
  /\ UNCHANGED <<appVars, memo, dsl, res, df, msgs, retval, ret, caller, cur,
                 nruns, ncalls, queries, firstRet>>

\* Line 76: dimcli.Dsl() binds the query client to the global connection.
CreateDsl ==
  /\ pc = "dsl"
  /\ dsl' = conn
  /\ pc' = "query"
  /\ UNCHANGED <<appVars, memo, conn, res, df, exc, msgs, retval, ret, caller,
                 cur, nruns, call, histVars>>

\* Line 78: dsl.query_iterative(query) answers or raises.
Query ==
  /\ pc = "query"
  /\ queries' = [queries EXCEPT ![cur] = @ + 1]
  /\ \/ /\ \E r \in LoaderResults : res' = r
        /\ call' = [call EXCEPT !.queries = @ + 1]
        /\ pc' = "extract"
        /\ UNCHANGED exc
     \/ /\ \E m \in LoaderMessages : Raise(m)
        /\ call' = [call EXCEPT !.queries = @ + 1, !.raisedAt = "query"]
        /\ UNCHANGED res
  /\ UNCHANGED <<appVars, memo, conn, dsl, df, msgs, retval, ret, caller, cur,
                 nruns, ncalls, logins, firstRet>>

\* Lines 79-83: the five as_dataframe* extractions, any of which may raise.
Extract ==
  /\ pc = "extract"
  /\ \/ /\ df' = res
        /\ pc' = "join"
        /\ UNCHANGED <<exc, call>>
     \/ /\ \E m \in LoaderMessages : Raise(m)
        /\ call' = [call EXCEPT !.raisedAt = "extract"]
        /\ UNCHANGED df
  /\ UNCHANGED <<appVars, memo, conn, dsl, res, msgs, retval, ret, caller, cur,
                 nruns, histVars>>

\* Lines 87-108: the enrichment join (the merge may raise) and the return.
Join ==
  /\ pc = "join"
  /\ \/ /\ retval' = [df EXCEPT !.affiliations =
                        EnrichmentJoin(df.main, df.affiliations)]
        /\ pc' = "store"
        /\ UNCHANGED <<exc, call>>
     \/ /\ JoinApplies(df.main, df.affiliations)
        /\ \E m \in MergeMessages : Raise(m)
        /\ call' = [call EXCEPT !.raisedAt = "join"]
        /\ UNCHANGED retval
  /\ UNCHANGED <<appVars, memo, conn, dsl, res, df, msgs, ret, caller, cur,
                 nruns, histVars>>

ExceptUnclassifiedPropagates ==
  /\ pc = "except"
  /\ IF Classify(exc)[1].bucket = "unclassified"
     THEN /\ pc' = "crashed"
          /\ UNCHANGED <<msgs, retval>>
     ELSE /\ msgs' = msgs \o Classify(exc)
          /\ retval' = AllNone
          /\ pc' = "store"
  /\ UNCHANGED <<appVars, memo, conn, dsl, res, df, exc, ret, caller, cur,
                 nruns, call, histVars>>

\* Lines 110-118: every Exception is caught, reported and turned into the
\* all-None result.
Except ==
  /\ pc = "except"
  /\ msgs' = msgs \o Classify(exc)
  /\ retval' = AllNone
  /\ pc' = "store"
  /\ UNCHANGED <<appVars, memo, conn, dsl, res, df, exc, ret, caller, cur,
                 nruns, call, histVars>>

StoreOnlySuccess ==
  /\ pc = "store"
  /\ memo' = IF retval = AllNone THEN memo
             ELSE [memo EXCEPT ![CurKey] = Entry(retval, msgs, cur)]
  /\ Return(Entry(retval, msgs, cur))
  /\ UNCHANGED <<appVars, conn, caller, cur, nruns, call, ncalls, logins,
                 queries>>

\* The body returned: st.cache_data stores the value with the reports the
\* body made, whatever the value is, and hands it to the caller.
Store ==
  /\ pc = "store"
  /\ memo' = [memo EXCEPT ![CurKey] = Entry(retval, msgs, cur)]
  /\ Return(Entry(retval, msgs, cur))
  /\ UNCHANGED <<appVars, conn, caller, cur, nruns, call, ncalls, logins,
                 queries>>

LoaderSteps ==
  \/ CacheHit \/ CacheMiss \/ Validate \/ Login \/ CreateDsl \/ Query
  \/ Extract \/ Join \/ Except \/ Store

NextLoader == DirectCall \/ LoaderSteps

\* The loader called directly, with any credential, endpoint and query.
SpecLoader == Init /\ [][NextLoader]_vars

\* ------------------------------------------- the legacy single-file loader
\* streamlit_app.py line 147: load_aurin_data(api_key), with the endpoint and
\* the query the function has built in.
LegacyCall ==
  /\ pc = "idle"
  /\ nruns < MaxCalls
  /\ \E k \in KeyTexts : cur' = <<k, DefaultEndpoint, DefaultQuery>>
  /\ nruns' = nruns + 1
  /\ caller' = "direct"
  /\ pc' = "call"
  /\ call' = FreshCall
  /\ UNCHANGED <<appVars, memo, bodyVars, ret, histVars>>

\* streamlit_app.py lines 112-114: if not api_key.
LegacyValidate ==
  /\ pc = "validate"
  /\ IF ~Truthy(cur[1])
     THEN /\ msgs' = Append(msgs, PreconditionReport)
          /\ retval' = AllNone
          /\ pc' = "store"
     ELSE /\ pc' = "login"
          /\ UNCHANGED <<msgs, retval>>
  /\ UNCHANGED <<appVars, memo, conn, dsl, res, df, exc, ret, caller, cur,
                 nruns, call, histVars>>

\* streamlit_app.py lines 127-133: the five extractions, any of which may
\* raise, and the return of the tables as they are.
LegacyExtract ==
  /\ pc = "extract"
  /\ \/ /\ df' = res
        /\ retval' = res
        /\ pc' = "store"
        /\ UNCHANGED <<exc, call>>
     \/ /\ \E m \in LoaderMessages : Raise(m)
        /\ call' = [call EXCEPT !.raisedAt = "extract"]
        /\ UNCHANGED <<df, retval>>
  /\ UNCHANGED <<appVars, memo, conn, dsl, res, msgs, ret, caller, cur,
                 nruns, histVars>>

\* streamlit_app.py lines 108-142; login, client, query and the except
\* clause read as in data_loader.py.
NextLegacy ==
  \/ LegacyCall \/ CacheHit \/ CacheMiss \/ LegacyValidate \/ Login
  \/ CreateDsl \/ Query \/ LegacyExtract \/ Except \/ Store

\* The legacy loader called with any credential.
SpecLegacy == Init /\ [][NextLegacy]_vars

\* Line 75 executed by the loader call of another UI session, served by a
\* second script thread of the same process with a different credential,
\* while this call is between two of its steps: dimcli's login state is one
\* object per process. (The other call's query client and tables are its own
\* locals; st.cache_data serializes only calls with the same arguments.)
PeerLogin ==
  /\ pc \notin {"idle", "call"}
  /\ \E t \in Triples :
       /\ t[1] # cur[1]
       /\ ValidateApiKey(t[1])
       /\ conn' = [key |-> t[1], endpoint |-> t[2]]
  /\ UNCHANGED <<appVars, memo, dsl, res, df, exc, msgs, retval, pc, caller,
                 cur, ret, nruns, call, histVars>>

NextSessions == NextLoader \/ PeerLogin

\* Loader calls of one session with the logins of another interleaved.
SpecSessions == Init /\ [][NextSessions]_vars

\* ------------------------------------------------------------ the sidebar
\* SidebarComponent._initialize_session_state: absent keys get defaults.
InitializeSessionState(ss) ==
  [api_key |-> IF ss.api_key = Unset THEN NoText ELSE ss.api_key,
   api_key_input |-> IF ss.api_key_input = Unset THEN << >> ELSE ss.api_key_input,
   from_date |-> IF ss.from_date = UnsetDate THEN NoDate ELSE ss.from_date,
   to_date |-> IF ss.to_date = UnsetDate THEN NoDate ELSE ss.to_date]

\* Line 58: from_date and to_date and from_date > to_date.
DateRangeInvalid(from_date, to_date) ==
  from_date # NoDate /\ to_date # NoDate /\ from_date > to_date

StoreDatesAlways(ss, from_date, to_date) ==
  [ss EXCEPT !.from_date = from_date, !.to_date = to_date]

\* Lines 58-62.
StoreDates(ss, from_date, to_date) ==
  IF DateRangeInvalid(from_date, to_date) THEN ss
  ELSE [ss EXCEPT !.from_date = from_date, !.to_date = to_date]

\* Lines 81 and 90: the branches that end in st.rerun().
SubmitAccepted(api_key_input, button) ==
  button = "submit" /\ Truthy(api_key_input)
Reruns(api_key_input, button) ==
  SubmitAccepted(api_key_input, button) \/ button = "clear"

HandleKeySubmitAlways(ss, api_key_input, button) ==
  IF button = "submit"
  THEN [ss EXCEPT !.api_key = api_key_input, !.api_key_input = api_key_input]
  ELSE IF button = "clear"
  THEN [ss EXCEPT !.api_key = NoText, !.api_key_input = << >>]
  ELSE [ss EXCEPT !.api_key_input = api_key_input]

\* Lines 81-98: submission, clearing, and keeping the typed text.
HandleKey(ss, api_key_input, button) ==
  IF SubmitAccepted(api_key_input, button)
  THEN [ss EXCEPT !.api_key = api_key_input, !.api_key_input = api_key_input]
  ELSE IF button = "clear"
  THEN [ss EXCEPT !.api_key = NoText, !.api_key_input = << >>]
  ELSE [ss EXCEPT !.api_key_input = api_key_input]

\* The sidebar's reports of one run.
SidebarReports(ss, api_key_input, button, from_date, to_date) ==
  (IF DateRangeInvalid(from_date, to_date) THEN {"date_error"} ELSE {})
  \cup (IF SubmitAccepted(api_key_input, button) THEN {"submitted"}
        ELSE IF button = "submit" THEN {"empty_key_error"}
        ELSE IF button = "clear" THEN {"cleared"}
        ELSE {})
  \cup (IF Reruns(api_key_input, button) THEN {}
        ELSE IF Truthy(ss.api_key) THEN {"key_active"}
        ELSE {"key_missing"})

Buttons == {"none", "submit", "clear"}

\* The latest loader call ended in the except clause (or replayed one that did).
LastLoadFailed ==
  /\ ret.msgs # << >>
  /\ ret.msgs[1].bucket \in {"authentication", "connectivity", "unclassified"}

\* main.py lines 28-47, one script run up to the loader call: the sidebar is
\* built and rendered with the widgets' values (the text field, at most one
\* pressed button, the two date fields); st.rerun() ends the run; otherwise
\* the loader is called when a credential is stored.
ScriptRun(api_key_input, button, from_date, to_date) ==
  LET ss == HandleKey(StoreDates(InitializeSessionState(session_state),
                                 from_date, to_date),
                      api_key_input, button)
  IN  /\ pc = "idle"
      /\ nruns < MaxRuns
      /\ nruns' = nruns + 1
      /\ ev' = [text |-> api_key_input, button |-> button]
      /\ session_state' = ss
      /\ sidebar_msgs' =
           SidebarReports(ss, api_key_input, button, from_date, to_date)
      /\ retry' = IF SubmitAccepted(api_key_input, button) THEN LastLoadFailed
                  ELSE IF button = "clear" THEN FALSE ELSE retry
      /\ IF Reruns(api_key_input, button)
         THEN /\ pc' = "idle"
              /\ shown' = "nothing"
              /\ UNCHANGED <<caller, cur, call, ret>>
         ELSE IF Truthy(ss.api_key)
         THEN /\ pc' = "call"
              /\ caller' = "main"
              /\ cur' = <<ss.api_key, DefaultEndpoint, DefaultQuery>>
              /\ call' = FreshCall
              /\ shown' = "nothing"
              /\ UNCHANGED ret
         ELSE /\ pc' = "render"
              /\ caller' = "main"
              /\ ret' = Entry(AllNone, << >>, NoTriple)
              /\ shown' = "nothing"
              /\ UNCHANGED <<cur, call>>
      /\ page' = << >>
      /\ UNCHANGED <<memo, bodyVars, histVars, data, clock>>

\* The date pairs the operator enters in Spec: none, a valid and an invalid
\* one, and one with only the from date.
AppDates == {<<NoDate, NoDate>>, <<15, 40>>, <<40, 15>>, <<40, NoDate>>}

RunDashboard ==
  \E t \in KeyTexts, b \in Buttons, d \in AppDates : ScriptRun(t, b, d[1], d[2])

\* st.session_state.get('api_key')
StoredKey ==
  IF session_state.api_key = Unset THEN NoText ELSE session_state.api_key

DashboardShowsNoPrompt(df_aurin_main, api_key) ==
  IF df_aurin_main # NoTable THEN "views" ELSE "failed"

\* main.py lines 50 and 83-87: what the script run puts below the header.
DashboardShows(df_aurin_main, api_key) ==
  IF df_aurin_main # NoTable THEN "views"
  ELSE IF ~Truthy(api_key) THEN "prompt"
  ELSE "failed"

\* main.py lines 50-87: the views, built on the tables the loader returned,
\* when the publications table is there, else the prompt or the failure
\* message.
RenderDashboard ==
  /\ pc = "render"
  /\ shown' = DashboardShows(ret.value.main, StoredKey)
  /\ IF ret.value.main # NoTable
     THEN \E p \in RenderFrom(1, [main |-> ret.value.main,
                                   aff |-> ret.value.affiliations], clock) :
            /\ page' = p.page
            /\ data' = p.data
     ELSE /\ page' = << >>
          /\ data' = data
  /\ retry' = FALSE
  /\ pc' = "idle"
  /\ UNCHANGED <<session_state, sidebar_msgs, ev, memo, bodyVars, caller, cur,
                 ret, nruns, call, histVars, clock>>

Next == RunDashboard \/ LoaderSteps \/ RenderDashboard

\* The dashboard: script runs driven by the operator's sidebar input.
Spec == Init /\ [][Next]_vars

\* --------------------------------------------- the join on bounded tables
\* The cells a column of the collaborator's affiliations table may hold. The
\* table always has aff_name; pub_id, times_cited and id may be missing.
AffCell ==
  [c \in {"aff_name", "pub_id", "times_cited", "id"} |->
     CASE c = "pub_id" -> {"P1", "P2"}
       [] c = "times_cited" -> {5, NaN}
       [] c = "id" -> {"A7"}
       [] OTHER -> {"X"}]
AffColSets == {{"aff_name"} \cup cs : cs \in SUBSET {"pub_id", "times_cited", "id"}}

\* The same for the publications table: title always, id and times_cited
\* possibly missing. The same id may occur in several rows.
PubCell ==
  [c \in {"title", "id", "times_cited"} |->
     CASE c = "id" -> {"P1", "P2"}
       [] c = "times_cited" -> {0, 10, NaN}
       [] OTHER -> {"T"}]
PubColSets == {{"title"} \cup cs : cs \in SUBSET {"id", "times_cited"}}

\* Every row over the columns cs with cells drawn from cell[c].
RECURSIVE RowsOver(_, _)
RowsOver(cs, cell) ==
  IF cs = {} THEN {<< >>}
  ELSE LET c == CHOOSE x \in cs : TRUE
       IN  {r @@ (c :> v) : r \in RowsOver(cs \ {c}, cell), v \in cell[c]}

\* Every table over one of the column sets with at most n rows, and None.
Tables(ColSets, cell, n) ==
  {NoTable} \cup
  UNION {{Table(cs, rows) :
            rows \in UNION {[1..k -> RowsOver(cs, cell)] : k \in 0..n}} :
         cs \in ColSets}

AffTables == Tables(AffColSets, AffCell, MaxAffRows)
PubTables == Tables(PubColSets, PubCell, MaxPubRows)

\* The call whose body SpecJoin and SpecClassify start in the middle of.
MidTriple == <<KeyA, DefaultEndpoint, DefaultQuery>>

\* A loader call that has logged in and queried.
InitMidCall ==
  /\ InitApp
  /\ memo = [t \in Triples |-> NoEntry]
  /\ caller = "direct"
  /\ cur = MidTriple
  /\ msgs = << >>
  /\ retval = AllNone
  /\ ret = Entry(AllNone, << >>, NoTriple)
  /\ nruns = 1
  /\ ncalls = [t \in Triples |-> IF t = MidTriple THEN 1 ELSE 0]
  /\ logins = [t \in Triples |-> IF t = MidTriple THEN 1 ELSE 0]
  /\ firstRet = [t \in Triples |-> NoEntry]

\* The state after the five extractions, for every pair of bounded tables
\* the collaborator may have returned.
InitJoin ==
  /\ InitMidCall
  /\ pc = "join"
  /\ conn = [key |-> MidTriple[1], endpoint |-> MidTriple[2]]
  /\ dsl = conn
  /\ \E m \in PubTables, a \in AffTables :
       res = FiveTuple(m, AuthorsScenario, a, NoTable, NoTable)
  /\ df = res
  /\ exc = NoText
  /\ call = [hit |-> FALSE, logins |-> 1, queries |-> 1, loginOk |-> TRUE,
             raisedAt |-> "none"]
  /\ queries = [t \in Triples |-> IF t = MidTriple THEN 1 ELSE 0]

NextJoin == Join \/ Except \/ Store

\* The enrichment join on every pair of bounded tables.
SpecJoin == InitJoin /\ [][NextJoin]_vars

\* The state when dimcli.login has raised, for every bounded message.
InitClassify ==
  /\ InitMidCall
  /\ pc = "except"
  /\ conn = NoConn
  /\ dsl = NoConn
  /\ res = NoResult
  /\ df = AllNone
  /\ exc \in BoundedMessages
  /\ call = [hit |-> FALSE, logins |-> 1, queries |-> 0, loginOk |-> FALSE,
             raisedAt |-> "login"]
  /\ queries = [t \in Triples |-> 0]

NextClassify == Except \/ Store

\* The except clause on every bounded message.
SpecClassify == InitClassify /\ [][NextClassify]_vars

\* ------------------------------------------ the views on bounded tables

\* The identifiers of the publications, by row.
PubIds == <<"P1", "P2", "P3", "P4", "P5">>

\* The date texts of the collaborator: three dates, a text that is no date,
\* and an absent date.
DateTexts ==
  {<<"1", "0">>, <<"2", "0">>, <<"3", "0">>, <<"n", "/", "a">>, NoText}

\* Row i of a publications table: its own id and title, any citation count
\* and date text.
ViewPubRows(i) ==
  {[c \in {"id", "title", "times_cited", "date", "journal.title"} |->
      CASE c = "id" -> PubIds[i] [] c = "title" -> PubIds[i]
        [] c = "times_cited" -> n [] c = "date" -> d [] OTHER -> "J"] :
     n \in {3, 10}, d \in DateTexts}

\* None, the empty DataFrame, and every table of 1..MaxViewRows such rows.
ViewPubTables ==
  {NoTable, EmptyTable} \cup
  UNION {{Table({"id", "title", "times_cited", "date", "journal.title"}, rows) :
            rows \in {s \in [1..k -> UNION {ViewPubRows(i) : i \in 1..k}] :
                        \A i \in 1..k : s[i] \in ViewPubRows(i)}} :
         k \in 1..MaxViewRows}

\* A row of the affiliations table after the enrichment join: the country and
\* the researcher may be absent, the country may be the empty text, and the
\* citation count is that of the publication (absent for one that matched no
\* publication).
ViewAffRows ==
  {[aff_name |-> a, aff_country |-> c, researcher_id |-> r, pub_id |-> p,
    times_cited |-> IF p = "P1" THEN 7 ELSE NaN] :
     a \in {<<"A", "b">>, <<"c">>}, c \in {"Australia", "", Null},
     r \in {"r1", "r2", Null}, p \in {"P1", "P2"}}

ViewAffTables ==
  {NoTable, EmptyTable} \cup
  UNION {{Table({"aff_name", "aff_country", "researcher_id", "pub_id",
                 "times_cited"}, rows) : rows \in [1..k -> ViewAffRows]} :
         k \in 1..MaxViewAffRows}

\* What is typed into the search box: nothing, a letter, and two characters
\* that mean something in a regular expression.
SearchTerms == {<< >>, <<"a">>, <<".">>, <<"(">>}

\* The values of top_n the two top-N views are built with.
TopNs == {1, 2, DefaultTopN}

\* The instants the views are rendered at: a midnight and the noon after it.
Clocks == {ClockDay * TicksPerDay, ClockDay * TicksPerDay + 1}

\* A loader call has returned the tables m and a, and the view components
\* are built on them.
InitViews(m, a) ==
  /\ session_state = [api_key |-> KeyA, api_key_input |-> KeyA,
                      from_date |-> NoDate, to_date |-> NoDate]
  /\ sidebar_msgs = {"key_active"}
  /\ shown = "views"
  /\ ev = [text |-> KeyA, button |-> "none", top_n |-> DefaultTopN,
           views |-> "one", search_term |-> << >>,
           sort_by |-> "Publications"]
  /\ retry = FALSE
  /\ memo = [t \in Triples |->
               IF t = MidTriple
               THEN Entry(FiveTuple(m, AuthorsScenario, a, NoTable, NoTable),
                          << >>, MidTriple)
               ELSE NoEntry]
  /\ conn = [key |-> MidTriple[1], endpoint |-> MidTriple[2]]
  /\ pc = "views"
  /\ caller = "main"
  /\ cur = MidTriple
  /\ dsl = NoConn
  /\ res = NoResult
  /\ df = AllNone
  /\ exc = NoText
  /\ msgs = << >>
  /\ retval = AllNone
  /\ ret = memo[MidTriple]
  /\ nruns = 1
  /\ call = [hit |-> FALSE, logins |-> 1, queries |-> 1, loginOk |-> TRUE,
             raisedAt |-> "none"]
  /\ ncalls = [t \in Triples |-> IF t = MidTriple THEN 1 ELSE 0]
  /\ logins = ncalls
  /\ queries = ncalls
  /\ firstRet = memo
  /\ data = [main |-> m, aff |-> a]
  /\ page = << >>
  /\ clock \in Clocks

InitPubViews ==
  \E m \in ViewPubTables :
    InitViews(m, EnrichmentJoin(PubsScenario, AffScenario))

InitAffViews == \E a \in ViewAffTables : InitViews(PubsScenario, a)

\* One view rendered on its own on an empty page: the page holds its outcome.
RenderView(i) ==
  /\ pc = "views"
  /\ page = << >>
  /\ \E o \in ViewOutcomes(i, data, clock) :
       /\ page' = <<o.out>>
       /\ data' = o.data
  /\ ev' = [ev EXCEPT !.top_n = DefaultTopN, !.views = "one",
                       !.search_term = << >>, !.sort_by = "Publications"]
  /\ UNCHANGED <<session_state, sidebar_msgs, shown, retry, clock, memo,
                 bodyVars, pc, caller, cur, ret, nruns, call, histVars>>

RenderKeyMetrics == RenderView(1)

\* The top-cited view, built with any top_n.
RenderTopCited ==
  /\ pc = "views"
  /\ page = << >>
  /\ \E n \in TopNs : \E o \in TopCitedArticles(data.main, n) :
       /\ page' = <<o.out>>
       /\ data' = [data EXCEPT !.main = o.data]
       /\ ev' = [ev EXCEPT !.top_n = n, !.views = "one",
                           !.search_term = << >>, !.sort_by = "Publications"]
  /\ UNCHANGED <<session_state, sidebar_msgs, shown, retry, clock, memo,
                 bodyVars, pc, caller, cur, ret, nruns, call, histVars>>

\* The organisations view with any text in its search box and any option of
\* its sort box.
RenderOrganisations ==
  /\ pc = "views"
  /\ page = << >>
  /\ \E term \in SearchTerms, sort_by \in SortOptions :
       \E out \in OrganisationsView(data.aff, term, sort_by) :
         /\ page' = <<out>>
         /\ ev' = [ev EXCEPT !.top_n = DefaultTopN, !.views = "one",
                             !.search_term = term, !.sort_by = sort_by]
  /\ data' = data
  /\ UNCHANGED <<session_state, sidebar_msgs, shown, retry, clock, memo,
                 bodyVars, pc, caller, cur, ret, nruns, call, histVars>>

RenderCountries == RenderView(4)

\* The recent-papers view, built with any top_n.
RenderRecent ==
  /\ pc = "views"
  /\ page = << >>
  /\ \E n \in TopNs : \E o \in RecentPapers(data.main, n) :
       /\ page' = <<o.out>>
       /\ data' = [data EXCEPT !.main = o.data]
       /\ ev' = [ev EXCEPT !.top_n = n, !.views = "one",
                           !.search_term = << >>, !.sort_by = "Publications"]
  /\ UNCHANGED <<session_state, sidebar_msgs, shown, retry, clock, memo,
                 bodyVars, pc, caller, cur, ret, nruns, call, histVars>>

RenderLast6Months == RenderView(6)

\* main.py lines 50-74 on the tables: the six views in order.
RenderAll ==
  /\ pc = "views"
  /\ page = << >>
  /\ data.main # NoTable
  /\ \E p \in RenderFrom(1, data, clock) :
       /\ page' = p.page
       /\ data' = p.data
  /\ ev' = [ev EXCEPT !.top_n = DefaultTopN, !.views = "all",
                       !.search_term = << >>, !.sort_by = "Publications"]
  /\ UNCHANGED <<session_state, sidebar_msgs, shown, retry, clock, memo,
                 bodyVars, pc, caller, cur, ret, nruns, call, histVars>>

\* The next script run starts with an empty page and the widgets as they
\* were at first; the tables stay the objects they are.
ClearPage ==
  /\ pc = "views"
  /\ page # << >>
  /\ page' = << >>
  /\ ev' = [ev EXCEPT !.top_n = DefaultTopN, !.views = "one",
                      !.search_term = << >>, !.sort_by = "Publications"]
  /\ UNCHANGED <<session_state, sidebar_msgs, shown, retry, clock, memo,
                 bodyVars, pc, caller, cur, ret, nruns, call, histVars, data>>

NextViews ==
  \/ RenderKeyMetrics \/ RenderTopCited \/ RenderOrganisations
  \/ RenderCountries \/ RenderRecent \/ RenderLast6Months \/ RenderAll
  \/ ClearPage

\* The views, in any order and any number of times, on every bounded
\* publications table.
SpecPubViews == InitPubViews /\ [][NextViews]_vars

\* The same on every bounded affiliations table.
SpecAffViews == InitAffViews /\ [][NextViews]_vars

\* ------------------------------------------------------------- the claims
\* A credential that is empty or consists only of whitespace.
IsBlank(k) == \A i \in 1..Len(k) : k[i] \in Whitespace

\* A loader call has run to its end and nothing else is running.
CallDone == pc = "idle" /\ cur # NoTriple

\* C1: a loader call with an empty or whitespace-only credential returns five
\* Nones, and no login and no query is ever made for such a credential.
C1_BlankCredentialNoIO ==
  /\ \A t \in Triples : IsBlank(t[1]) => logins[t] = 0 /\ queries[t] = 0
  /\ (CallDone /\ IsBlank(cur[1])) => ret.value = AllNone
  /\ (pc \in {"login", "dsl", "query", "extract", "join"}) => ~IsBlank(cur[1])

C1_Witness ==
  /\ CallDone
  /\ cur[1] = BlankKey
  /\ ret.value = AllNone
  /\ ncalls[<<EmptyKey, DefaultEndpoint, DefaultQuery>>] > 0

\* C2 as stated: once a triple has been called twice, exactly one fetch (one
\* login) was made for it, and the second call returned what the first did.
C2_ExactlyOneFetchForEveryTriple ==
  \A t \in Triples :
    (pc = "idle" /\ ncalls[t] >= 2) =>
      /\ logins[t] = 1
      /\ (cur = t => ret = firstRet[t])

\* C2 amended: once a triple has been called twice, the body ran once: one
\* login and at most one query when the credential is not blank, none when it
\* is blank; the second call is a memo hit returning what the first returned.
C2_MemoizedPerTriple ==
  \A t \in Triples :
    (pc = "idle" /\ ncalls[t] >= 2) =>
      /\ logins[t] = IF IsBlank(t[1]) THEN 0 ELSE 1
      /\ queries[t] <= logins[t]
      /\ (cur = t => call.hit /\ ret = firstRet[t])

C2_Witness ==
  /\ CallDone
  /\ ncalls[cur] = 2
  /\ call.hit
  /\ ret.value # AllNone
  /\ logins[cur] = 1
  /\ queries[cur] = 1

\* The publications and affiliations tables are both present and non-empty
\* and carry the join's columns.
EnrichmentPossible(m, a) ==
  /\ m # NoTable
  /\ a # NoTable
  /\ Len(m.rows) > 0
  /\ Len(a.rows) > 0
  /\ {"id", "times_cited"} \subseteq m.cols
  /\ "pub_id" \in a.cols

\* The body is about to return the joined tables (no exception was raised).
JoinReturned == pc = "store" /\ call.raisedAt = "none"

\* The rows of the publications table whose id is the affiliation row's pub_id.
MatchingPubs(r) ==
  {j \in 1..Len(res.main.rows) : res.main.rows[j].id = r.pub_id}

C4_PassThrough ==
  (pc = "store" /\ ~EnrichmentPossible(res.main, res.affiliations)) =>
    /\ call.raisedAt = "none"
    /\ retval.affiliations = res.affiliations
    /\ retval.main = res.main
    /\ msgs = << >>

C4_Witness ==
  /\ pc = "store"
  /\ res.affiliations # NoTable
  /\ res.main # NoTable
  /\ Len(res.affiliations.rows) = MaxAffRows
  /\ Len(res.main.rows) > 0
  /\ "pub_id" \in res.affiliations.cols
  /\ "times_cited" \notin res.main.cols
  /\ retval.affiliations = res.affiliations

\* C5: whatever step of a loader call raises, the call does not crash: it
\* makes exactly one report and returns five Nones.
C5_ExceptionsContained ==
  /\ pc # "crashed"
  /\ (pc = "store" /\ call.raisedAt # "none") =>
       retval = AllNone /\ Len(msgs) = 1
  /\ (CallDone /\ call.raisedAt # "none") =>
       ret.value = AllNone /\ Len(ret.msgs) = 1

C5_Witness ==
  /\ CallDone
  /\ call.raisedAt = "join"
  /\ ret.value = AllNone
  /\ ret.msgs[1].bucket = "unclassified"

\* The message of the handled exception mentions the keyword, in any case.
Mentions(kw) == Contains(Lower(exc), kw)

\* The except clause has made its reports for exc.
Handled == pc = "store" /\ exc # NoText

\* C6 as stated: one bucket per message, authentication when the message
\* mentions authentication or authorization, else connectivity when it
\* mentions connection or timeout, else unclassified.
C6_AuthorizationKeyword ==
  Handled =>
    /\ Len(msgs) = 1
    /\ msgs[1].bucket =
         IF Mentions(KwAuthentication) \/ Mentions(KwAuthorization)
         THEN "authentication"
         ELSE IF Mentions(KwConnection) \/ Mentions(KwTimeout)
         THEN "connectivity"
         ELSE "unclassified"

\* C6 amended: one bucket per message, authentication when the message
\* contains "authentication" or "unauthorized" (in any case), else
\* connectivity when it contains "connection" or "timeout", else unclassified.
C6_UnauthorizedKeyword ==
  Handled =>
    /\ Len(msgs) = 1
    /\ msgs[1].bucket =
         IF Mentions(KwAuthentication) \/ Mentions(KwUnauthorized)
         THEN "authentication"
         ELSE IF Mentions(KwConnection) \/ Mentions(KwTimeout)
         THEN "connectivity"
         ELSE "unclassified"

C6_Witness ==
  /\ Handled
  /\ Mentions(KwUnauthorized)
  /\ Mentions(KwTimeout)
  /\ ~Mentions(KwAuthentication)
  /\ msgs = <<Report("authentication", << >>)>>

\* C7: a call that runs the body with a valid credential logs in exactly once,
\* queries once after a successful login and never after a failed one, and
\* repeats neither.
C7_OneLoginOneQuery ==
  /\ call.logins <= 1
  /\ call.queries <= 1
  /\ call.queries = 1 => call.logins = 1 /\ call.loginOk
  /\ pc = "query" => call.logins = 1 /\ call.loginOk /\ call.queries = 0
  /\ (CallDone /\ ~call.hit /\ ~IsBlank(cur[1])) =>
       /\ call.logins = 1
       /\ call.queries = IF call.loginOk THEN 1 ELSE 0

C7_Witness ==
  /\ CallDone
  /\ ~call.hit
  /\ call.raisedAt = "query"
  /\ call.logins = 1
  /\ call.queries = 1

\* C8 as stated, for credentials that pass validation: the render pass that
\* follows a submission made after a failed load runs the loader body again
\* (a login is attempted) instead of returning the memoized failure.
C8_FreshAttemptAfterResubmit ==
  (pc = "render" /\ retry /\ ~IsBlank(session_state.api_key)) =>
    ~call.hit /\ call.logins = 1

\* C9 as stated: a call with a triple not called before makes a fetch (a
\* login), and a call returns a value computed for its own triple.
C9_NewTripleAlwaysFetches ==
  /\ (CallDone /\ ncalls[cur] = 1) => ~call.hit /\ logins[cur] = 1
  /\ CallDone => ret.src = cur

\* C9 amended: a call with a triple not called before runs the body, which
\* makes a fetch (a login) unless the credential is blank, and a call returns
\* a value computed for its own triple.
C9_NewTripleRunsBody ==
  /\ (CallDone /\ ncalls[cur] = 1) =>
       /\ ~call.hit
       /\ logins[cur] = IF IsBlank(cur[1]) THEN 0 ELSE 1
  /\ CallDone => ret.src = cur

C9_Witness ==
  /\ CallDone
  /\ cur = <<KeyA, OtherEndpoint, DefaultQuery>>
  /\ ncalls[cur] = 1
  /\ ncalls[<<KeyA, DefaultEndpoint, DefaultQuery>>] = 1
  /\ memo[<<KeyA, DefaultEndpoint, DefaultQuery>>].value # AllNone
  /\ logins[cur] = 1
  /\ ret.value = AllNone

\* C10: the stored credential starts as None; a script run with Submit and a
\* non-empty text stores the text, one with Clear stores None, and every other
\* run and every other step leaves it as it is.
C10_CredentialLifecycle ==
  /\ StoredKey = NoText
  /\ [][IF nruns' # nruns
        THEN StoredKey' =
               IF ev'.button = "submit" /\ ev'.text # << >> THEN ev'.text
               ELSE IF ev'.button = "clear" THEN NoText
               ELSE StoredKey
        ELSE StoredKey' = StoredKey]_vars

C10_Witness ==
  /\ StoredKey = KeyA
  /\ ev = [text |-> << >>, button |-> "submit"]
  /\ "empty_key_error" \in sidebar_msgs

\* C11: a script run in which an empty or whitespace-only credential is
\* submitted reports the rejection and leaves the stored credential as it
\* was, and the load memo never gets an entry on behalf of such a credential
\* (nor is a login made for one).
C11_BlankSubmissionChangesNothing ==
  /\ [](\A t \in Triples : IsBlank(t[1]) => memo[t] = NoEntry /\ logins[t] = 0)
  /\ [][(nruns' # nruns /\ ev'.button = "submit" /\ IsBlank(ev'.text)) =>
          /\ StoredKey' = StoredKey
          /\ "empty_key_error" \in sidebar_msgs']_vars

\* A view was rendered on its own and did not stop at its placeholder.
Rendered(v) ==
  pc = "views" /\ Len(page) = 1 /\ page[1].view = v
  /\ page[1].kind # "placeholder"

Min(a, b) == IF a < b THEN a ELSE b

\* The place of a publication record in the table the views were given.
PlaceOf(r) == CHOOSE i \in 1..Len(ret.value.main.rows) :
                ret.value.main.rows[i]["id"] = r["id"]

\* C12: the top-cited view built with N selects min(N, table size) records,
\* no record left out has more citations than one selected, the selection is
\* in non-increasing times_cited order, and records with equal times_cited
\* stand in their original table order.
C12_TopNStable ==
  Rendered("top_cited") =>
    LET sel == page[1].selected
        all == ret.value.main.rows
    IN  /\ Len(sel) = Min(ev.top_n, Len(all))
        /\ \A i \in 1..Len(sel), k \in 1..Len(all) :
             (\A j \in 1..Len(sel) : sel[j]["id"] # all[k]["id"]) =>
               all[k]["times_cited"] <= sel[i]["times_cited"]
        /\ \A i, j \in 1..Len(sel) :
             i < j =>
               /\ sel[i]["times_cited"] >= sel[j]["times_cited"]
               /\ sel[i]["times_cited"] = sel[j]["times_cited"] =>
                    PlaceOf(sel[i]) < PlaceOf(sel[j])

\* The record of the given table a selected row was made from.
SourceOf(r) == ret.value.main.rows[PlaceOf(r)]

\* The date text of a record is a date, and the day it names.
Parseable(r) == IsDateText(r["date"])
DayOf(r) == 10 * DigitVal(r["date"][1]) + DigitVal(r["date"][2])

\* Record a may stand before record b in the most-recent order: a is not
\* older than b, or b has no parseable date.
NotOlder(a, b) ==
  ~Parseable(b) \/ (Parseable(a) /\ DayOf(a) >= DayOf(b))

\* C13: the most-recent view built with N shows min(N, table size) records,
\* by parsed date descending with the records without a parseable date after
\* all the others, and they are the first N of that order: no record left out
\* belongs before one that is shown, so a record without a parseable date is
\* shown only when fewer than N records have one.
C13_RecentUnparseableLast ==
  Rendered("recent") =>
    LET sel == page[1].selected
        all == ret.value.main.rows
        left == {k \in 1..Len(all) :
                   \A j \in 1..Len(sel) : sel[j]["id"] # all[k]["id"]}
    IN  /\ Len(sel) = Min(ev.top_n, Len(all))
        /\ \A i, j \in 1..Len(sel) :
             i < j => NotOlder(SourceOf(sel[i]), SourceOf(sel[j]))
        /\ \A i \in 1..Len(sel), k \in left : NotOlder(SourceOf(sel[i]), all[k])
        /\ (\E i \in 1..Len(sel) : ~Parseable(SourceOf(sel[i]))) =>
             Cardinality({k \in 1..Len(all) : Parseable(all[k])}) < ev.top_n
        /\ \A i \in 1..Len(sel) :
             page[1].rows[i].date =
               IF Parseable(SourceOf(sel[i])) THEN SourceOf(sel[i])["date"]
               ELSE NoText

C13_Witness ==
  /\ Rendered("recent")
  /\ ev.top_n = 2
  /\ Len(ret.value.main.rows) = 3
  /\ ret.value.main.rows[1]["date"] = <<"n", "/", "a">>
  /\ ret.value.main.rows[2]["date"] = <<"1", "0">>
  /\ ret.value.main.rows[3]["date"] = <<"3", "0">>
  /\ page[1].kind = "shown"
  /\ page[1].selected[1]["id"] = "P3"
  /\ page[1].selected[2]["id"] = "P2"

\* The records of the given table dated at or after the instant 180 days
\* before now.
InLast180Days ==
  {k \in 1..Len(ret.value.main.rows) :
     /\ Parseable(ret.value.main.rows[k])
     /\ DayOf(ret.value.main.rows[k]) * TicksPerDay
          >= clock - HalfYearDays * TicksPerDay}

\* C14: the last-6-months view shows exactly the records whose parsed date is
\* at or after now - 180 days (one dated exactly then included, one without a
\* parseable date never), each once, all of them, in descending date order.
C14_Last180DaysInclusive ==
  Rendered("last_6_months") =>
    LET sel == page[1].selected
        all == ret.value.main.rows
    IN  /\ {sel[i]["id"] : i \in 1..Len(sel)} = {all[k]["id"] : k \in InLast180Days}
        /\ Len(sel) = Cardinality(InLast180Days)
        /\ \A i, j \in 1..Len(sel) :
             i < j => DayOf(SourceOf(sel[i])) >= DayOf(SourceOf(sel[j]))
        /\ page[1].kind = IF InLast180Days = {} THEN "none_found" ELSE "shown"

C14_Witness ==
  /\ Rendered("last_6_months")
  /\ clock = (20 + HalfYearDays) * TicksPerDay
  /\ Len(ret.value.main.rows) = 3
  /\ ret.value.main.rows[1]["date"] = <<"2", "0">>
  /\ ret.value.main.rows[2]["date"] = <<"n", "/", "a">>
  /\ ret.value.main.rows[3]["date"] = <<"3", "0">>
  /\ Len(page[1].selected) = 2
  /\ page[1].selected[1]["id"] = "P3"
  /\ page[1].selected[2]["id"] = "P1"

\* The affiliation records of the given table of one organisation and country.
RecordsOf(name, country) ==
  {i \in 1..Len(ret.value.affiliations.rows) :
     /\ ret.value.affiliations.rows[i].aff_name = name
     /\ ret.value.affiliations.rows[i].aff_country = country}

\* The (organisation name, country) groups of the given table: the pairs its
\* records name (a record without a name or without a country names none).
OrgGroups ==
  {<<ret.value.affiliations.rows[i].aff_name,
     ret.value.affiliations.rows[i].aff_country>> :
     i \in {j \in 1..Len(ret.value.affiliations.rows) :
              /\ ret.value.affiliations.rows[j].aff_name # Null
              /\ ret.value.affiliations.rows[j].aff_country # Null}}

\* The sum of the values of a function over its domain.
RECURSIVE SumOf(_)
SumOf(f) ==
  IF DOMAIN f = {} THEN 0
  ELSE LET x == CHOOSE y \in DOMAIN f : TRUE
       IN  f[x] + SumOf([y \in DOMAIN f \ {x} |-> f[y]])

\* The citation count the records of a group carry for publication p, 0 when
\* none of them carries one.
CitationsOf(name, country, p) ==
  LET with == {i \in RecordsOf(name, country) :
                 /\ ret.value.affiliations.rows[i].pub_id = p
                 /\ ret.value.affiliations.rows[i].times_cited # NaN}
  IN  IF with = {} THEN 0
      ELSE ret.value.affiliations.rows[CHOOSE i \in with : TRUE].times_cited

PublicationsIn(country) ==
  {ret.value.affiliations.rows[i].pub_id :
     i \in {j \in 1..Len(ret.value.affiliations.rows) :
              ret.value.affiliations.rows[j].aff_country = country}}

\* C16: the figure the affiliated-countries view gives for a country (labelled
\* 'Number of Publications') is the number of distinct publications with an
\* affiliation record in that country.
C16_CountryFigureCountsPublications ==
  (Rendered("countries") /\ page[1].kind = "shown") =>
    \A c \in DOMAIN page[1].rows[1].count :
      page[1].rows[1].count[c] = Cardinality(PublicationsIn(c))

\* C17: whatever views have been rendered, in whatever order and however
\* often, the publications and affiliations tables the views hold are the
\* tables the loader returned: same columns, same rows, same cells (the date
\* column still the unparsed text).
C17_ViewsLeaveTablesAlone ==
  (pc = "views" \/ shown = "views") =>
    /\ data.main = ret.value.main
    /\ data.aff = ret.value.affiliations

C17_Witness ==
  /\ Rendered("recent")
  /\ page[1].kind = "shown"
  /\ Len(data.main.rows) = 3
  /\ Len(page[1].selected) = 3
  /\ page[1].selected[1]["date"] = <<"@", "2", "0">>
  /\ page[1].selected[3]["date"] = NaTCell
  /\ \E i, j \in 1..3 :
       /\ data.main.rows[i]["date"] = <<"2", "0">>
       /\ data.main.rows[j]["date"] = <<"n", "/", "a">>

\* The table a view requires: the affiliations table for the organisations
\* and countries views, the publications table for the others.
RequiredTable(v) ==
  IF v \in {"organisations", "countries"} THEN data.aff ELSE data.main

\* C18: every rendered view whose required table is None or empty shows its
\* placeholder and does not raise; in a pass over the six views such a view
\* is followed by the next view of the pass, and a pass in which no view
\* raised shows all six.
C18_AbsentTablePlaceholder ==
  /\ \A i \in 1..Len(page) :
       LET required == RequiredTable(page[i].view)
       IN  (required = NoTable \/ IsEmpty(required)) =>
             page[i].kind = "placeholder"
  /\ (page # << >> /\ (pc = "views" => ev.views = "all")) =>
       /\ \A i \in 1..Len(page) :
            /\ page[i].view = ViewOrder[i]
            /\ (page[i].kind = "placeholder" /\ i < Len(ViewOrder))
                 => Len(page) > i
       /\ (\A i \in 1..Len(page) : page[i].kind # "raised")
            => Len(page) = Len(ViewOrder)

C18_Witness ==
  /\ ev.views = "all"
  /\ data.main # NoTable
  /\ IsEmpty(data.main)
  /\ Len(page) = Len(ViewOrder)
  /\ page[1].kind = "placeholder"
  /\ page[2].kind = "placeholder"
  /\ page[3].kind = "shown"
  /\ page[4].kind = "shown"
  /\ page[5].kind = "placeholder"
  /\ page[6].kind = "placeholder"

\* C19: when the affiliations table has a times_cited column of its own
\* before the join, after the join every row that references a publication
\* carries that publication's times_cited, and every row that references
\* none keeps the times_cited it had before the join.
C19_UnmatchedKeepsOriginal ==
  (/\ JoinReturned
   /\ EnrichmentPossible(res.main, res.affiliations)
   /\ "times_cited" \in res.affiliations.cols) =>
    LET out == retval.affiliations
        before == res.affiliations
    IN  /\ "times_cited" \in out.cols
        /\ \A i \in 1..Len(out.rows) :
             LET r == out.rows[i]
             IN  IF MatchingPubs(r) = {}
                 THEN \E k \in 1..Len(before.rows) :
                        /\ before.rows[k].pub_id = r.pub_id
                        /\ before.rows[k].times_cited = r.times_cited
                 ELSE r.times_cited \in
                        {res.main.rows[j].times_cited : j \in MatchingPubs(r)}

\* The date cell of a displayed record lies within the date range stored in
\* the session; a bound that is not set excludes nothing, and a cell without
\* a date lies in no range.
InDateRange(cell) ==
  LET from_date == session_state.from_date
      to_date == session_state.to_date
      text == IF IsParsed(cell) THEN Tail(cell) ELSE cell
      day == 10 * DigitVal(text[1]) + DigitVal(text[2])
  IN  \/ from_date = NoDate /\ to_date = NoDate
      \/ /\ cell # NaTCell
         /\ IsParsed(cell) \/ IsDateText(cell)
         /\ from_date = NoDate \/ day >= from_date
         /\ to_date = NoDate \/ day <= to_date

\* C20: when the views are on the page, the publications they show are those
\* whose date lies within the date range stored in the session (all of them
\* when no range is set): the publication views list no record outside it
\* and the publications figure counts the records inside it.
C20_DateRangeRestrictsPublications ==
  (shown = "views" /\ page # << >>) =>
    \A i \in 1..Len(page) :
      /\ (page[i].view \in {"top_cited", "recent", "last_6_months"}
            /\ page[i].kind = "shown") =>
           \A k \in 1..Len(page[i].selected) :
             InDateRange(page[i].selected[k]["date"])
      /\ (page[i].view = "key_metrics" /\ page[i].kind = "shown") =>
           page[i].rows[1].publications =
             Cardinality({k \in 1..Len(ret.value.main.rows) :
                            InDateRange(ret.value.main.rows[k]["date"])})

\* The rollup rows the explorer should list for the term in the search box:
\* those whose name contains the term, letter case ignored.
NameContainsTerm(r) == Contains(Lower(r.aff_name), Lower(ev.search_term))

\* The listed rows are in the order the chosen sort option names.
ListedInOrder(rows) ==
  \A i, j \in 1..Len(rows) :
    i < j =>
      CASE ev.sort_by = "Publications" ->
             rows[i].researcher_count >= rows[j].researcher_count
        [] ev.sort_by = "Citations" -> rows[i].times_cited >= rows[j].times_cited
        [] ev.sort_by = "Name" -> TextLeq(rows[i].aff_name, rows[j].aff_name)
        [] ev.sort_by = "Country" ->
             CountryRank(rows[i].aff_country) <= CountryRank(rows[j].aff_country)

\* C21: for every sort option and every search term, the organisation
\* explorer lists exactly the rollup rows whose name contains the term
\* (case-insensitively), by researcher_count descending, times_cited
\* descending, name ascending or country ascending as the option says.
C21_ExplorerSearchAndSort ==
  (Rendered("organisations") /\ ev.views = "one" /\ page[1].selected # << >>) =>
    LET rollup == page[1].selected
        listed == IF page[1].kind = "none_found" THEN << >> ELSE page[1].rows
    IN  /\ page[1].kind # "raised"
        /\ {listed[k] : k \in 1..Len(listed)} =
             {rollup[k] : k \in {n \in 1..Len(rollup) : NameContainsTerm(rollup[n])}}
        /\ \A i, j \in 1..Len(listed) : i # j => listed[i] # listed[j]
        /\ ListedInOrder(listed)

C23_JoinOneRowPerRow ==
  (JoinReturned /\ EnrichmentPossible(res.main, res.affiliations)) =>
    LET out == retval.affiliations
        before == res.affiliations
    IN  /\ Len(out.rows) = Len(before.rows)
        /\ \A i \in 1..Len(out.rows) :
             \A c \in before.cols \ {"times_cited", "id"} :
               out.rows[i][c] = before.rows[i][c]

\* C24: the enrichment join keeps every column the affiliations table had,
\* other than times_cited, with the values it had (every returned row is an
\* input row in those columns and every input row is returned), and adds no
\* column other than times_cited, also when the affiliations table has a
\* column named id of its own.
C24_JoinKeepsColumns ==
  (JoinReturned /\ EnrichmentPossible(res.main, res.affiliations)) =>
    LET out == retval.affiliations
        before == res.affiliations
        kept == before.cols \ {"times_cited"}
        Same(a, b) == \A c \in kept : a[c] = b[c]
    IN  /\ out.cols = before.cols \cup {"times_cited"}
        /\ \A i \in 1..Len(out.rows) :
             \E k \in 1..Len(before.rows) : Same(out.rows[i], before.rows[k])
        /\ \A k \in 1..Len(before.rows) :
             \E i \in 1..Len(out.rows) : Same(out.rows[i], before.rows[k])

\* C25: when the organisations view is rendered on a non-empty affiliations
\* table it raises nothing, and every organisation name of the table is the
\* name of at least one row of the rollup, organisations whose records all
\* lack a country included.
C25_EveryOrganisationInRollup ==
  Rendered("organisations") =>
    LET rollup == page[1].selected
        all == ret.value.affiliations.rows
    IN  /\ page[1].kind # "raised" \/ ev.search_term # << >>
        /\ \A i \in 1..Len(all) :
             \E k \in 1..Len(rollup) : rollup[k].aff_name = all[i].aff_name

\* C26: in a pass that renders the key-metrics view and the affiliated-
\* countries view, the 'Affiliated Countries' number of the first equals the
\* number of countries the second lists (none when it shows its placeholder
\* or its nothing-found note), whatever the country cells hold.
C26_CountryCountsAgree ==
  (/\ pc = "views" => ev.views = "all"
   /\ Len(page) >= 4
   /\ page[1].kind = "shown") =>
    page[1].rows[1].countries =
      IF page[4].kind = "shown" THEN Cardinality(page[4].rows[1].listed) ELSE 0

\* The query client of the call in flight was created under the session that
\* was authenticated with the call's own credential and endpoint.
OwnSession == dsl = [key |-> cur[1], endpoint |-> cur[2]]

\* C27: with the logins of another session's loader call interleaved, the
\* query of a call is executed under the session authenticated with the
\* call's own credential, and a five-tuple that was fetched is memoized under
\* the credential it was fetched with.
C27_QueryUnderOwnCredential ==
  /\ [][(pc = "query" /\ queries' # queries) => OwnSession]_vars
  /\ [][(pc = "store" /\ call.queries > 0 /\ memo' # memo) => OwnSession]_vars

\* C28: an exception message that contains, in any letter case, both an
\* authentication keyword ("authentication", "unauthorized") and a
\* connectivity keyword ("connection", "timeout") gets exactly one report,
\* the authentication failure.
C28_AuthenticationFirst ==
  (/\ Handled
   /\ Mentions(KwAuthentication) \/ Mentions(KwUnauthorized)
   /\ Mentions(KwConnection) \/ Mentions(KwTimeout)) =>
    /\ msgs = <<Report("authentication", << >>)>>
    /\ \A i \in 1..Len(msgs) : msgs[i].bucket # "connectivity"

C28_Witness ==
  /\ Handled
  /\ exc = JoinWords(<<WConnection, WAuthentication>>)
  /\ exc # Lower(exc)
  /\ msgs = <<Report("authentication", << >>)>>

\* st.session_state.get('from_date') and .get('to_date')
StoredDates ==
  <<IF session_state.from_date = UnsetDate THEN NoDate
    ELSE session_state.from_date,
    IF session_state.to_date = UnsetDate THEN NoDate ELSE session_state.to_date>>

C30_LegacyRejectsBlank ==
  /\ \A k \in KeyTexts :
       IsBlank(k) =>
         /\ logins[<<k, DefaultEndpoint, DefaultQuery>>] = 0
         /\ queries[<<k, DefaultEndpoint, DefaultQuery>>] = 0
  /\ (CallDone /\ IsBlank(cur[1])) => ret.value = AllNone

====
